---- MODULE Spec2Model ----
(***************************************************************************)
(* RayColt/timewarp: the host program of the shader demos.                 *)
(*                                                                         *)
(* Every demo (shader1-circles.cpp, shader3-tunnel-DEV-NOT-WORKING.cpp,    *)
(* shader5-45single.cpp and the two unnamed parts) has the same main():    *)
(* compile two shaders, link them, look six uniform locations up, then run *)
(* the loop  drain events -> read clock -> clear -> glUseProgram -> six    *)
(* glUniform writes -> draw -> swap -> delay.  The demos differ only in    *)
(* the fragment shader: which uniforms it declares.  Line numbers in the   *)
(* comments are those of src/shader1-circles.cpp unless a file is named.   *)
(*                                                                         *)
(* Arithmetic: the parameters are C++ floats.  In main() they are         *)
(* modelled as exact rationals (numerator, denominator in lowest terms),   *)
(* without float rounding.  speed is modelled a second time at its binary32 *)
(* width (fspeed), with rounding, subnormals and infinity.  The fragment   *)
(* shaders are modelled one invocation at a time (frag): exactly where     *)
(* they compute by arithmetic alone, by intervals where a sine enters.     *)
(***************************************************************************)
EXTENDS Integers, Sequences, FiniteSets, TLC

VARIABLES
    variant,     \* which demo's fragment shader is compiled in
    pc,          \* position in main()
    exitCode,    \* value returned by main(); Unassigned while it runs
    vs, fs,      \* GLuint vs, fs (186-187)
    prog,        \* GLuint prog (189)
    shaders,     \* GL: names of the shader objects that exist
    programs,    \* GL: names of the program objects that exist
    status,      \* GL: each object's compile or link status, by name
    current,     \* GL: the program made current by glUseProgram (0: none)
    uni,         \* GL: the linked program's uniform values, by location
    viewport,    \* GL: the viewport's width and height
    glError,     \* GL: the error flag, kept until glGetError reads it
    loc,         \* the six GLint loc* variables (205-210), by slot
    clock,       \* the last value the monotonic clock returned
    start,       \* auto start (212)
    t,           \* float t (243)
    running,     \* bool running (213)
    speed, warp, thickness, colorShift,   \* the parameters (216-219)
    w, h,        \* int w, h (170)
    queue,       \* SDL's event queue
    env,         \* what the environment may still post
    expect,      \* history: the defaults with every posted event applied in order
    resizes,     \* history: the sizes of the resizes handled in this iteration's drain
    frame,       \* history: the steps done in this iteration, in order
    ever,        \* history: the kinds of step done since the program started
    quitSeen,    \* history: a Quit or escape event has been handled
    late,        \* history: the last event handled after it, << >> when none
    cerr,        \* the diagnostics written to std::cerr
    vao, vbo,    \* GLuint vao, vbo (194)
    ctx, win,    \* SDL_GLContext ctx, SDL_Window* win (171, 175): 0 once released
    fspeed,      \* float speed at its binary32 width, with the key presses left
    frag         \* one invocation of the fragment shader

vars == << variant, pc, exitCode, vs, fs, prog, shaders, programs, status, current, uni,
           viewport, loc, clock, start, t, running, speed, warp, thickness,
           colorShift, w, h, queue, env, expect, resizes, frame, ever, quitSeen,
           late, cerr, vao, vbo, ctx, win, fspeed, frag, glError >>

----------------------------------------------------------------------------
(* Bounds of the model *)

MaxEvents == 2       \* events the environment posts in one run (Spec)
MaxQueue == 2        \* events pending at once (Spec)
MaxClock == 1        \* the clock's last tick
MaxLeft == 10        \* LEFT key presses (SpecClamp)
MaxZ == 18           \* z key presses (SpecClamp)
MaxIncr == 1         \* RIGHT, and x, key presses (SpecClamp)
MaxDown == 1090      \* DOWN key presses (SpecSpeed): past the least values of a float
MaxUp == 915         \* UP key presses (SpecSpeed): past the greatest finite float

----------------------------------------------------------------------------
(* Rational arithmetic for the float parameters *)

RECURSIVE GCD(_, _)
GCD(a, b) == IF b = 0 THEN a ELSE GCD(b, a % b)

Abs(x) == IF x < 0 THEN -x ELSE x

Rat(n, d) ==
    LET s == IF d < 0 THEN -1 ELSE 1
        g == GCD(Abs(n), Abs(d))
    IN  [n |-> (s * n) \div g, d |-> (s * d) \div g]

RAdd(a, b) == Rat(a.n * b.d + b.n * a.d, a.d * b.d)
RSub(a, b) == Rat(a.n * b.d - b.n * a.d, a.d * b.d)
RMul(a, b) == Rat(a.n * b.n, a.d * b.d)
RDiv(a, b) == Rat(a.n * b.d, a.d * b.n)
RLess(a, b) == a.n * b.d < b.n * a.d
RLeq(a, b) == a.n * b.d <= b.n * a.d
RMax(a, b) == IF RLess(a, b) THEN b ELSE a      \* std::max(a, b)

Zero == Rat(0, 1)

----------------------------------------------------------------------------
(* speed at its width: a C++ float is an IEEE binary32, here the value      *)
(* m * 2^e with m < 2^24, normalised (m >= 2^23) unless e is the least      *)
(* exponent; operations round to nearest, ties to even.  Products of two    *)
(* mantissas need 48 bits and are computed in two halves.                   *)

Radix == 2 ^ 24          \* mantissas are below it
Hidden == 2 ^ 23         \* the least normalised mantissa
Half == 2 ^ 12
MinExp == 0 - 149        \* the exponent of the subnormals and of the least normals
MaxExp == 104            \* the exponent of the greatest finite values

Float(m, e) == [m |-> m, e |-> e]

Infinity == Float(Hidden, MaxExp + 1)

Six == Float(3 * 2 ^ 22, 0 - 21)           \* 6.0f
OnePointOne == Float(9227469, 0 - 23)      \* 1.1f, the float nearest to 1.1

Positive(x) == x.m > 0

Max(a, b) == IF a >= b THEN a ELSE b
Min(a, b) == IF a <= b THEN a ELSE b

RECURSIVE BitLen(_)
BitLen(n) == IF n = 0 THEN 0 ELSE 1 + BitLen(n \div 2)

\* q plus a fraction rem / (2 * half), rounded to nearest, ties to even.
RoundNearest(q, rem, half) ==
    IF rem > half \/ (rem = half /\ q % 2 = 1) THEN q + 1 ELSE q

\* The float of mantissa m (at most 2^24 after rounding up) and exponent e.
Finite(m, e) ==
    LET mm == IF m = Radix THEN Hidden ELSE m
        ee == IF m = Radix THEN e + 1 ELSE e
    IN  IF ee > MaxExp THEN Infinity ELSE Float(mm, ee)

\* x * y for a normal y.
FMul(x, y) ==
    IF x = Infinity THEN Infinity
    ELSE LET x1 == x.m \div Half
             x0 == x.m % Half
             y1 == y.m \div Half
             y0 == y.m % Half
             mid == x1 * y0 + x0 * y1
             low == (mid % Half) * Half + x0 * y0
             H == x1 * y1 + mid \div Half + low \div Radix   \* the product is
             L == low % Radix                                \* H * 2^24 + L
             E == x.e + y.e
             s == Max(BitLen(H), MinExp - E)                 \* bits rounded away
             q == H * 2 ^ (24 - s) + L \div 2 ^ s
             m == IF s = 0 THEN q ELSE RoundNearest(q, L % 2 ^ s, 2 ^ (s - 1))
         IN  Finite(m, E + s)

\* k more bits of the quotient q, remainder r, of a division by d.
RECURSIVE LongDivide(_, _, _, _)
LongDivide(q, r, d, k) ==
    IF k = 0 THEN [q |-> q, r |-> r]
    ELSE IF 2 * r >= d THEN LongDivide(2 * q + 1, 2 * r - d, d, k - 1)
                       ELSE LongDivide(2 * q, 2 * r, d, k - 1)

\* Mutant: results below the least normal float are flushed to zero.
FDiv_FlushToZero(x, y) ==
    IF x = Infinity THEN Infinity
    ELSE LET E0 == x.e - y.e
             k == Min(IF x.m >= y.m THEN 23 ELSE 24, E0 - MinExp)
             d == LongDivide(x.m \div y.m, x.m % y.m, y.m, k)
             m == RoundNearest(d.q, 2 * d.r, y.m)
         IN  IF m < Hidden THEN Float(0, MinExp) ELSE Finite(m, E0 - k)

\* x / y for a normal y.
FDiv(x, y) ==
    IF x = Infinity THEN Infinity
    ELSE LET E0 == x.e - y.e
             k == Min(IF x.m >= y.m THEN 23 ELSE 24, E0 - MinExp)  \* quotient bits
             d == LongDivide(x.m \div y.m, x.m % y.m, y.m, k)
             m == RoundNearest(d.q, 2 * d.r, y.m)
         IN  Finite(m, E0 - k)

----------------------------------------------------------------------------
(* The program's constants *)

Unassigned == -1                 \* a local that has not been assigned yet
NoLocation == -1                 \* glGetUniformLocation: no such active uniform
InitialWidth == 1280             \* int w = 1280 (170)
InitialHeight == 720             \* int h = 720 (170)

DefaultSpeed == Rat(6, 1)        \* float speed = 6.0f (216)
DefaultWarp == Rat(1, 1)         \* float warp = 1.0f (217)
DefaultThickness_Other == Rat(1, 10)         \* mutant: 0.1f for 0.18f
DefaultThickness == Rat(18, 100) \* float thickness = 0.18f (218)
DefaultColorShift == Rat(0, 1)   \* float colorShift = 0.0f (219)

SpeedFactor == Rat(11, 10)       \* 1.1f (226-227)
WarpStep == Rat(1, 10)           \* 0.1f (228-229)
WarpFloor == Rat(1, 10)          \* std::max(0.1f, ...) (228)
ThicknessStep == Rat(1, 100)     \* 0.01f (230-231)
ThicknessFloor == Rat(1, 100)    \* std::max(0.01f, ...) (230)
ColorShiftStep == Rat(1, 20)     \* 0.05f (232-233)

----------------------------------------------------------------------------
(* The demos: what each fragment shader declares, what main() looks up *)

Variants == {"circles", "rings", "dev"}

Slots == {"time", "resolution", "speed", "warp", "thickness", "colorShift"}

\* The uniforms of the fragment shader, in the order of their declarations.
FragmentUniforms(v) ==
    CASE v = "circles" -> << "iTime", "iResolution", "speed", "warp",
                             "thickness", "colorShift" >>
      [] v = "rings"   -> << "iResolution", "iTime" >>
      [] v = "dev"     -> << "uResolution", "uTime" >>

\* The uniforms the shader's output depends on, by the slot they stand for.
RequiredUniforms(v) ==
    CASE v = "circles" -> [time |-> "iTime", resolution |-> "iResolution",
                           speed |-> "speed", warp |-> "warp",
                           thickness |-> "thickness", colorShift |-> "colorShift"]
      [] v = "rings"   -> [time |-> "iTime", resolution |-> "iResolution"]
      [] v = "dev"     -> [resolution |-> "uResolution"]

\* The name main() passes to glGetUniformLocation for each slot.
LookupName(s) ==
    CASE s = "time"       -> "iTime"
      [] s = "resolution" -> "iResolution"
      [] s = "speed"      -> "speed"
      [] s = "warp"       -> "warp"
      [] s = "thickness"  -> "thickness"
      [] s = "colorShift" -> "colorShift"

IsVec2(name) == name \in {"iResolution", "uResolution"}

\* A linked program's uniforms start at zero; locations count from 0.
InitialUniforms(v) ==
    [l \in 0 .. Len(FragmentUniforms(v)) - 1 |->
        IF IsVec2(FragmentUniforms(v)[l + 1]) THEN << 0, 0 >> ELSE Zero]

glGetUniformLocation(v, name) ==
    IF \E i \in 1 .. Len(FragmentUniforms(v)) : FragmentUniforms(v)[i] = name
    THEN (CHOOSE i \in 1 .. Len(FragmentUniforms(v)) : FragmentUniforms(v)[i] = name) - 1
    ELSE NoLocation

\* glUniform1f / glUniform2f: a write to location -1 is silently ignored, and a
\* write needs the program to be current.
glUniform(u, cur, p, l, val) ==
    IF l # NoLocation /\ cur = p /\ p # 0 /\ l \in DOMAIN u
    THEN [u EXCEPT ![l] = val]
    ELSE u

----------------------------------------------------------------------------
(* Events *)

Keys == {"ESCAPE", "UP", "DOWN", "LEFT", "RIGHT", "z", "x", "c", "v", "a"}

Sizes == { << 800, 600 >>, << 640, 480 >> }

WindowEvents == {"SIZE_CHANGED", "EXPOSED"}

Quit == [type |-> "QUIT", sym |-> "", event |-> "", data1 |-> 0, data2 |-> 0]
KeyDown(k) == [type |-> "KEYDOWN", sym |-> k, event |-> "", data1 |-> 0, data2 |-> 0]
SizeChanged(sz) == [type |-> "WINDOWEVENT", sym |-> "", event |-> "SIZE_CHANGED",
                    data1 |-> sz[1], data2 |-> sz[2]]
Exposed == [type |-> "WINDOWEVENT", sym |-> "", event |-> "EXPOSED",
            data1 |-> 0, data2 |-> 0]

Events == {Quit, Exposed} \cup {KeyDown(k) : k \in Keys}
              \cup {SizeChanged(sz) : sz \in Sizes}

IsQuit(e) == e.type = "QUIT" \/ (e.type = "KEYDOWN" /\ e.sym = "ESCAPE")
IsResize(e) == e.type = "WINDOWEVENT" /\ e.event = "SIZE_CHANGED"

----------------------------------------------------------------------------
(* The body of the drain loop (222-239), on the locals it touches *)

\* Mutant: += for *=.
SpeedUp_Additive(x) == RAdd(x, SpeedFactor)

SpeedUp(x) == RMul(x, SpeedFactor)                          \* speed *= 1.1f

\* Mutant: -= for /=.
SpeedDown_Subtract(x) == RSub(x, SpeedFactor)

SpeedDown(x) == RDiv(x, SpeedFactor)                        \* speed /= 1.1f
\* Mutant: the floor of warp is forgotten.
WarpDown_NoFloor(x) == RSub(x, WarpStep)

WarpDown(x) == RMax(WarpFloor, RSub(x, WarpStep))           \* std::max(0.1f, warp - 0.1f)
WarpUp(x) == RAdd(x, WarpStep)                              \* warp += 0.1f
ThicknessDown(x) == RMax(ThicknessFloor, RSub(x, ThicknessStep))
ThicknessUp(x) == RAdd(x, ThicknessStep)                    \* thickness += 0.01f
ColorShiftUp(x) == RAdd(x, ColorShiftStep)                  \* colorShift += 0.05f
ColorShiftDown(x) == RSub(x, ColorShiftStep)                \* colorShift -= 0.05f

\* Mutant: SDL_QUIT is not handled.
OnQuit_Ignored(e, s) == s

OnQuit(e, s) ==
    IF e.type = "QUIT" THEN [s EXCEPT !.running = FALSE] ELSE s

\* Mutant: every key is taken for UP.
OnKeyDown_AnyKey(e, s) ==
    IF e.type # "KEYDOWN" THEN s ELSE [s EXCEPT !.speed = SpeedUp(s.speed)]

OnKeyDown(e, s) ==
    IF e.type # "KEYDOWN" THEN s
    ELSE CASE e.sym = "ESCAPE" -> [s EXCEPT !.running = FALSE]
           [] e.sym = "UP"     -> [s EXCEPT !.speed = SpeedUp(s.speed)]
           [] e.sym = "DOWN"   -> [s EXCEPT !.speed = SpeedDown(s.speed)]
           [] e.sym = "LEFT"   -> [s EXCEPT !.warp = WarpDown(s.warp)]
           [] e.sym = "RIGHT"  -> [s EXCEPT !.warp = WarpUp(s.warp)]
           [] e.sym = "z"      -> [s EXCEPT !.thickness = ThicknessDown(s.thickness)]
           [] e.sym = "x"      -> [s EXCEPT !.thickness = ThicknessUp(s.thickness)]
           [] e.sym = "c"      -> [s EXCEPT !.colorShift = ColorShiftUp(s.colorShift)]
           [] e.sym = "v"      -> [s EXCEPT !.colorShift = ColorShiftDown(s.colorShift)]
           [] OTHER            -> s

\* Mutant: a resize sets the viewport and forgets w and h.
OnSizeChanged_ViewportOnly(e, s) ==
    IF e.type = "WINDOWEVENT" /\ e.event = "SIZE_CHANGED"
    THEN [s EXCEPT !.viewport = << e.data1, e.data2 >>]
    ELSE s

OnSizeChanged(e, s) ==
    IF e.type = "WINDOWEVENT" /\ e.event = "SIZE_CHANGED"
    THEN [s EXCEPT !.w = e.data1, !.h = e.data2,
                   !.viewport = << e.data1, e.data2 >>]
    ELSE s

HandleEvent(e, s) == OnSizeChanged(e, OnKeyDown(e, OnQuit(e, s)))

\* The locals the drain loop reads and writes, as one record.
Locals == [running |-> running, speed |-> speed, warp |-> warp,
           thickness |-> thickness, colorShift |-> colorShift,
           w |-> w, h |-> h, viewport |-> viewport]

Defaults == [running |-> TRUE, speed |-> DefaultSpeed, warp |-> DefaultWarp,
             thickness |-> DefaultThickness, colorShift |-> DefaultColorShift,
             w |-> InitialWidth, h |-> InitialHeight,
             viewport |-> << InitialWidth, InitialHeight >>]

RECURSIVE HandleAll(_, _)
HandleAll(q, s) == IF q = << >> THEN s ELSE HandleAll(Tail(q), HandleEvent(Head(q), s))

----------------------------------------------------------------------------
(* The environment: which events it may still post (of each, and in all), how  *)
(* many may be pending at once, and how far the clock runs                    *)

\* Any event, MaxEvents of them in all.
AnyEvents == [left |-> [e \in Events |-> MaxEvents], total |-> MaxEvents,
              pending |-> MaxQueue, ticks |-> MaxClock, faults |-> 0]

\* Only Quit and the two sizes: enough to run every demo through a resize.
WindowOnly ==
    [left |-> [e \in Events |-> IF e.type = "KEYDOWN" \/ e = Exposed THEN 0 ELSE MaxEvents],
     total |-> MaxEvents, pending |-> MaxQueue, ticks |-> MaxClock, faults |-> 0]

\* Runs that reach a floor: the keys that move warp, LEFT often enough to
\* reach 0.1 from 1.0 and go on, and one escape to end the run; the clock
\* stands still.
WarpKeys ==
    [left |-> [e \in Events |->
                 CASE e = KeyDown("LEFT")   -> MaxLeft
                   [] e = KeyDown("RIGHT")  -> MaxIncr
                   [] e = KeyDown("ESCAPE") -> 1
                   [] OTHER                 -> 0],
     total |-> MaxLeft + MaxIncr + 1, pending |-> 1, ticks |-> 0, faults |-> 0]

\* The same for thickness: z often enough to reach 0.01 from 0.18 and go on.
ThicknessKeys ==
    [left |-> [e \in Events |->
                 CASE e = KeyDown("z")      -> MaxZ
                   [] e = KeyDown("x")      -> MaxIncr
                   [] e = KeyDown("ESCAPE") -> 1
                   [] OTHER                 -> 0],
     total |-> MaxZ + MaxIncr + 1, pending |-> 1, ticks |-> 0, faults |-> 0]

\* Both floors in one run: LEFT and z only.
FloorKeys ==
    [left |-> [e \in Events |->
                 CASE e = KeyDown("LEFT")   -> MaxLeft
                   [] e = KeyDown("z")      -> MaxZ
                   [] e = KeyDown("ESCAPE") -> 1
                   [] OTHER                 -> 0],
     total |-> MaxLeft + MaxZ + 1, pending |-> 1, ticks |-> 0, faults |-> 0]

\* Runs that end: Quit, escape, and one key and one size that do not end the run.
QuitEvents ==
    [left |-> [e \in Events |->
                 IF e \in {Quit, KeyDown("ESCAPE"), KeyDown("UP"), SizeChanged(<< 800, 600 >>)}
                 THEN MaxEvents ELSE 0],
     total |-> MaxEvents, pending |-> MaxQueue, ticks |-> MaxClock, faults |-> 0]

\* Runs in which one draw call fails: Quit and one size, one failure.
DrawFaults ==
    [left |-> [e \in Events |-> IF e \in {Quit, SizeChanged(<< 800, 600 >>)}
                                 THEN MaxEvents ELSE 0],
     total |-> MaxEvents, pending |-> MaxQueue, ticks |-> MaxClock, faults |-> 1]

----------------------------------------------------------------------------
(* The initial state: main() is about to compile the shaders (186) *)

InitHost(vset, eset) ==
    /\ variant \in vset
    /\ pc = "compile_vs"
    /\ exitCode = Unassigned
    /\ vs = Unassigned /\ fs = Unassigned /\ prog = Unassigned
    /\ shaders = {} /\ programs = {}
    /\ status = << >>
    /\ current = 0
    /\ uni = << >>
    /\ viewport = << InitialWidth, InitialHeight >>
    /\ glError = "GL_NO_ERROR"
    /\ loc = [s \in Slots |-> Unassigned]
    /\ clock = 0
    /\ start = Unassigned /\ t = Zero
    /\ running = FALSE
    /\ speed = Zero /\ warp = Zero /\ thickness = Zero /\ colorShift = Zero
    /\ w = InitialWidth /\ h = InitialHeight
    /\ queue = << >>
    /\ env \in eset
    /\ expect = Defaults
    /\ resizes = << >>
    /\ frame = << >>
    /\ ever = {}
    /\ quitSeen = FALSE
    /\ late = << >>
    /\ cerr = << >>
    /\ vao = 0 /\ vbo = 0
    /\ ctx = 1 /\ win = 1

\* No key pressed at binary32 width, no fragment being shaded.
NoPresses == [value |-> Six, ups |-> 0, downs |-> 0]
NoFragment == [stage |-> "idle"]

InitWith(vset, eset) ==
    /\ InitHost(vset, eset)
    /\ fspeed = NoPresses
    /\ frag = NoFragment

Init == InitWith({"circles"}, {AnyEvents})

InitDemos == InitWith(Variants, {WindowOnly})

InitKeys == InitWith({"circles"}, {AnyEvents, WarpKeys, ThicknessKeys})

InitClamp == InitWith({"circles"}, {WarpKeys, ThicknessKeys, FloorKeys})

InitLive == InitWith({"circles"}, {QuitEvents})

InitFaults == InitWith({"circles"}, {DrawFaults})

----------------------------------------------------------------------------
(* Startup (186-219) *)

\* glCreateShader / glCreateProgram: a name not in use.
FreshName(used) == CHOOSE n \in 1 .. Cardinality(used) + 1 : n \notin used

InUse == DOMAIN status

\* status with the entry of a new object n.
Record(n, st) == [m \in DOMAIN status \cup {n} |-> IF m = n THEN st ELSE status[m]]

\* compileShader (131-142): the shader's name, or 0 with a diagnostic.
compileShader(ok, sh) == IF ok THEN sh ELSE 0

\* linkProgram (144-157): the program's name, or 0 with a diagnostic.
linkProgram(ok, p) == IF ok THEN p ELSE 0

Compiled(sh) == sh \in DOMAIN status /\ status[sh] = "compiled"
Linked(p) == p \in DOMAIN status /\ status[p] = "linked"

\* glLinkProgram cannot succeed unless both attached shaders compiled.
LinkOutcomes == IF Compiled(vs) /\ Compiled(fs) THEN BOOLEAN ELSE {FALSE}

Startup == << variant, fspeed, frag, glError, current, viewport, clock, start, t, running, speed, warp,
              thickness, colorShift, w, h, queue, env, expect, resizes, frame,
              ever, quitSeen, late >>

\* GLuint vs = compileShader(GL_VERTEX_SHADER, vertexShaderSrc);  (186)
CompileVertex ==
    /\ pc = "compile_vs"
    /\ \E ok \in BOOLEAN :
         LET sh == FreshName(InUse) IN
           /\ shaders' = shaders \cup {sh}
           /\ status' = Record(sh, IF ok THEN "compiled" ELSE "compile_failed")
           /\ vs' = compileShader(ok, sh)
           /\ cerr' = IF ok THEN cerr ELSE Append(cerr, "Shader compile error")
    /\ pc' = "compile_fs"
    /\ UNCHANGED << Startup, exitCode, fs, prog, programs, uni, loc, vao, vbo, ctx, win >>

\* GLuint fs = compileShader(GL_FRAGMENT_SHADER, fragmentShaderSrc);  (187)
CompileFragment ==
    /\ pc = "compile_fs"
    /\ \E ok \in BOOLEAN :
         LET sh == FreshName(InUse) IN
           /\ shaders' = shaders \cup {sh}
           /\ status' = Record(sh, IF ok THEN "compiled" ELSE "compile_failed")
           /\ fs' = compileShader(ok, sh)
           /\ cerr' = IF ok THEN cerr ELSE Append(cerr, "Shader compile error")
    /\ pc' = "check_shaders"
    /\ UNCHANGED << Startup, exitCode, vs, prog, programs, uni, loc, vao, vbo, ctx, win >>

\* Mutant: only the vertex shader's result is tested.
ShadersFailed_VertexOnly == vs = 0

\* Mutant: && for ||.
ShadersFailed_Both == vs = 0 /\ fs = 0

\* if (!vs || !fs) return 1;  (188)
ShadersFailed == vs = 0 \/ fs = 0

CheckShaders ==
    /\ pc = "check_shaders"
    /\ pc' = IF ShadersFailed THEN "done" ELSE "link"
    /\ exitCode' = IF ShadersFailed THEN 1 ELSE exitCode
    /\ UNCHANGED << Startup, vs, fs, prog, shaders, programs, status, uni, loc, cerr,
                    vao, vbo, ctx, win >>

\* GLuint prog = linkProgram(vs, fs);  (189)
Link ==
    /\ pc = "link"
    /\ \E ok \in LinkOutcomes :
         LET p == FreshName(InUse) IN
           /\ programs' = programs \cup {p}
           /\ status' = Record(p, IF ok THEN "linked" ELSE "link_failed")
           /\ prog' = linkProgram(ok, p)
           /\ uni' = IF ok THEN InitialUniforms(variant) ELSE uni
           /\ cerr' = IF ok THEN cerr ELSE Append(cerr, "Program link error")
    /\ pc' = "delete_shaders"
    /\ UNCHANGED << Startup, exitCode, vs, fs, shaders, loc, vao, vbo, ctx, win >>

\* Mutant: the shaders are deleted only when the link succeeded.
DeleteShaders_OnSuccessOnly ==
    /\ pc = "delete_shaders"
    /\ shaders' = IF prog # 0 THEN shaders \ {vs, fs} ELSE shaders
    /\ pc' = "check_prog"
    /\ UNCHANGED << Startup, exitCode, vs, fs, prog, programs, status, uni, loc, cerr,
                    vao, vbo, ctx, win >>

\* glDeleteShader(vs); glDeleteShader(fs);  (190)
DeleteShaders ==
    /\ pc = "delete_shaders"
    /\ shaders' = shaders \ {vs, fs}
    /\ pc' = "check_prog"
    /\ UNCHANGED << Startup, exitCode, vs, fs, prog, programs, status, uni, loc, cerr,
                    vao, vbo, ctx, win >>

\* Mutant: the check of the link's result is missing.
ProgramFailed_Never == FALSE

\* if (!prog) return 1;  (191)
ProgramFailed == prog = 0

CheckProgram ==
    /\ pc = "check_prog"
    /\ pc' = IF ProgramFailed THEN "done" ELSE "vertex_array"
    /\ exitCode' = IF ProgramFailed THEN 1 ELSE exitCode
    /\ UNCHANGED << Startup, vs, fs, prog, shaders, programs, status, uni, loc, cerr,
                    vao, vbo, ctx, win >>

\* The fullscreen triangle's vertex array and buffer (193-202).
VertexArray ==
    /\ pc = "vertex_array"
    /\ vao' = 1
    /\ vbo' = 1
    /\ pc' = "locations"
    /\ UNCHANGED << Startup, exitCode, vs, fs, prog, shaders, programs, status, uni,
                    loc, cerr, ctx, win >>

\* Mutant: locSpeed and locWarp are looked up under each other's name.
UniformLocations_Crossed ==
    [s \in Slots |-> glGetUniformLocation(variant,
                         LookupName(CASE s = "speed" -> "warp"
                                      [] s = "warp"  -> "speed"
                                      [] OTHER       -> s))]

\* The six glGetUniformLocation calls (205-210).
UniformLocations == [s \in Slots |-> glGetUniformLocation(variant, LookupName(s))]

Locations ==
    /\ pc = "locations"
    /\ loc' = UniformLocations
    /\ pc' = "session"
    /\ UNCHANGED << Startup, exitCode, vs, fs, prog, shaders, programs, status, uni,
                    cerr, vao, vbo, ctx, win >>

\* A reading of high_resolution_clock: with the toolchain the repository builds
\* with (Visual Studio, README.md) it is steady_clock, so no reading is earlier
\* than the last one.
ClockReadings == clock .. env.ticks

\* start, running and the default parameters (212-219).
Session ==
    /\ pc = "session"
    /\ \E now \in ClockReadings : clock' = now /\ start' = now
    /\ running' = TRUE
    /\ speed' = DefaultSpeed
    /\ warp' = DefaultWarp
    /\ thickness' = DefaultThickness
    /\ colorShift' = DefaultColorShift
    /\ pc' = "loop"
    /\ UNCHANGED << variant, fspeed, frag, glError, exitCode, vs, fs, prog, shaders, programs, status,
                    current, uni, viewport, loc, t, w, h, queue, env, expect, resizes,
                    frame, ever, quitSeen, late, cerr, vao, vbo, ctx, win >>

----------------------------------------------------------------------------
(* The loop (221-261) *)

Called == << variant, fspeed, frag, exitCode, vs, fs, prog, shaders, programs, status, loc, start,
            cerr, vao, vbo, ctx, win >>

Fixed == << Called, glError >>

\* while (running)  (221)
LoopTest ==
    /\ pc = "loop"
    /\ pc' = IF running THEN "poll" ELSE "cleanup"
    /\ frame' = << >>
    /\ resizes' = << >>
    /\ UNCHANGED << Fixed, current, uni, viewport, clock, t, running, speed, warp,
                    thickness, colorShift, w, h, queue, env, expect, ever, quitSeen, late >>

\* SDL_PollEvent returned an event: the body of the drain loop (223-238).
PollEvent ==
    /\ pc = "poll"
    /\ queue # << >>
    /\ LET e == Head(queue)
           s == HandleEvent(e, Locals)
       IN  /\ queue' = Tail(queue)
           /\ running' = s.running
           /\ speed' = s.speed
           /\ warp' = s.warp
           /\ thickness' = s.thickness
           /\ colorShift' = s.colorShift
           /\ w' = s.w
           /\ h' = s.h
           /\ viewport' = s.viewport
           /\ resizes' = IF IsResize(e) THEN Append(resizes, << e.data1, e.data2 >>)
                                     ELSE resizes
           /\ quitSeen' = (quitSeen \/ IsQuit(e))
           /\ late' = IF quitSeen THEN << e >> ELSE late
    /\ ever' = ever \cup {"poll"}
    /\ pc' = "poll"
    /\ UNCHANGED << Fixed, current, uni, clock, t, env, expect, frame >>

\* Mutant: the drain may be left with events still pending.
DrainEnds_Early(q) == TRUE

\* Mutant: the drain is also left once running is false.
DrainEnds_AtQuit(q) == q = << >> \/ ~running

\* Whether the drain loop is left: SDL_PollEvent returned 0 (222).
DrainEnds(q) == q = << >>

\* Mutant: the iteration is abandoned once running is false.
AfterPoll_ChecksRunning(r) == IF r THEN "clock" ELSE "loop"

\* Where control goes after the drain: the clock read follows unconditionally,
\* running is tested only by the while (239-241).
AfterPoll(r) == "clock"

PollEmpty ==
    /\ pc = "poll"
    /\ DrainEnds(queue)
    /\ ever' = ever \cup {"poll"}
    /\ frame' = Append(frame, "drain")
    /\ pc' = AfterPoll(running)
    /\ UNCHANGED << Fixed, current, uni, viewport, clock, t, running, speed, warp,
                    thickness, colorShift, w, h, queue, env, expect, resizes,
                    quitSeen, late >>

\* Mutant: the difference is taken the wrong way round.
Elapsed_Reversed(now, origin) == Rat(origin - now, 1)

\* float t = (now - start).count(): the ticks from start to now, as a float (241-243)
Elapsed(now, origin) == Rat(now - origin, 1)

ReadClock ==
    /\ pc = "clock"
    /\ \E now \in ClockReadings : clock' = now /\ t' = Elapsed(now, start)
    /\ frame' = Append(frame, "clock")
    /\ pc' = "clear"
    /\ UNCHANGED << Fixed, current, uni, viewport, running, speed, warp, thickness,
                    colorShift, w, h, queue, env, expect, resizes, ever, quitSeen, late >>

\* glClearColor; glClear  (245-246)
Clear ==
    /\ pc = "clear"
    /\ frame' = Append(frame, "clear")
    /\ pc' = "use"
    /\ UNCHANGED << Fixed, current, uni, viewport, clock, t, running, speed, warp,
                    thickness, colorShift, w, h, queue, env, expect, resizes, ever,
                    quitSeen, late >>

\* Mutant: the call has no effect.
glUseProgram_Ignored(cur, p) == cur

\* glUseProgram: 0 unbinds; a program that is not linked is refused.
glUseProgram(cur, p) == IF p = 0 \/ Linked(p) THEN p ELSE cur

\* glUseProgram(prog)  (248)
UseProgram ==
    /\ pc = "use"
    /\ current' = glUseProgram(current, prog)
    /\ frame' = Append(frame, "use")
    /\ pc' = "time"
    /\ UNCHANGED << Fixed, uni, viewport, clock, t, running, speed, warp, thickness,
                    colorShift, w, h, queue, env, expect, resizes, ever, quitSeen, late >>

\* The six glUniform calls in the order of the code (249-254).
WriteOrder == << "time", "resolution", "speed", "warp", "thickness", "colorShift" >>

\* Mutant: the write of thickness is left out.
AfterWrite_SkipsThickness(s) ==
    CASE s = "time"       -> "resolution"
      [] s = "resolution" -> "speed"
      [] s = "speed"      -> "warp"
      [] s = "warp"       -> "colorShift"
      [] s = "thickness"  -> "colorShift"
      [] s = "colorShift" -> "draw"

AfterWrite(s) ==
    CASE s = "time"       -> "resolution"
      [] s = "resolution" -> "speed"
      [] s = "speed"      -> "warp"
      [] s = "warp"       -> "thickness"
      [] s = "thickness"  -> "colorShift"
      [] s = "colorShift" -> "draw"

\* Mutant: locWarp receives thickness.
Argument_WrongLocal(s) ==
    CASE s = "time"       -> t
      [] s = "resolution" -> << w, h >>
      [] s = "speed"      -> speed
      [] s = "warp"       -> thickness
      [] s = "thickness"  -> thickness
      [] s = "colorShift" -> colorShift

\* The argument of the glUniform call for slot s.
Argument(s) ==
    CASE s = "time"       -> t
      [] s = "resolution" -> << w, h >>
      [] s = "speed"      -> speed
      [] s = "warp"       -> warp
      [] s = "thickness"  -> thickness
      [] s = "colorShift" -> colorShift

SetUniform ==
    /\ pc \in Slots
    /\ uni' = glUniform(uni, current, prog, loc[pc], Argument(pc))
    /\ frame' = Append(frame, pc)
    /\ ever' = ever \cup {"uniform"}
    /\ pc' = AfterWrite(pc)
    /\ UNCHANGED << Fixed, current, viewport, clock, t, running, speed, warp,
                    thickness, colorShift, w, h, queue, env, expect, resizes,
                    quitSeen, late >>

\* glDrawArrays succeeds, or (while the environment lets it) records an error.
DrawOutcomes == IF env.faults > 0 THEN BOOLEAN ELSE {TRUE}

\* glBindVertexArray(vao); glDrawArrays(GL_TRIANGLES, 0, 3);  (256-257)
\* The result of the call is not tested: no glGetError follows.
Draw ==
    /\ pc = "draw"
    /\ \E ok \in DrawOutcomes :
         /\ glError' = IF ok THEN glError ELSE "GL_OUT_OF_MEMORY"
         /\ env' = IF ok THEN env ELSE [env EXCEPT !.faults = @ - 1]
    /\ frame' = Append(frame, "draw")
    /\ ever' = ever \cup {"draw"}
    /\ pc' = "swap"
    /\ UNCHANGED << Called, current, uni, viewport, clock, t, running, speed, warp,
                    thickness, colorShift, w, h, queue, expect, resizes,
                    quitSeen, late >>

\* SDL_GL_SwapWindow(win)  (259)
Swap ==
    /\ pc = "swap"
    /\ frame' = Append(frame, "present")
    /\ ever' = ever \cup {"present"}
    /\ pc' = "delay"
    /\ UNCHANGED << Fixed, current, uni, viewport, clock, t, running, speed, warp,
                    thickness, colorShift, w, h, queue, env, expect, resizes,
                    quitSeen, late >>

\* SDL_Delay(1)  (260)
Delay ==
    /\ pc = "delay"
    /\ frame' = Append(frame, "yield")
    /\ pc' = "loop"
    /\ UNCHANGED << Fixed, current, uni, viewport, clock, t, running, speed, warp,
                    thickness, colorShift, w, h, queue, env, expect, resizes, ever,
                    quitSeen, late >>

\* The releases after the loop and return 0 (263-269).
Cleanup ==
    /\ pc = "cleanup"
    /\ vbo' = 0
    /\ vao' = 0
    /\ programs' = programs \ {prog}
    /\ ctx' = 0
    /\ win' = 0
    /\ current' = 0
    /\ exitCode' = 0
    /\ pc' = "done"
    /\ UNCHANGED << variant, fspeed, frag, glError, vs, fs, prog, shaders, status, uni, viewport, loc, clock,
                    start, t, running, speed, warp, thickness, colorShift, w, h, queue, env,
                    expect, resizes, frame, ever, quitSeen, late, cerr >>

----------------------------------------------------------------------------
(* The environment posts an event to SDL's queue *)

\* SDL_PollEvent first pumps the window system's pending input into the queue
\* (SDL_PumpEvents) and then takes one event out: input reaches the queue while
\* the program is at its poll, and only then.
MayPost(e) ==
    /\ pc = "poll"
    /\ env.total > 0
    /\ env.left[e] > 0
    /\ Len(queue) < env.pending

Post ==
    \E e \in Events :
        /\ MayPost(e)
        /\ queue' = Append(queue, e)
        /\ env' = [env EXCEPT !.total = @ - 1, !.left[e] = @ - 1]
        /\ expect' = HandleEvent(e, expect)
        /\ UNCHANGED << variant, fspeed, frag, glError, pc, exitCode, vs, fs, prog, shaders, programs, status,
                        current, uni, viewport, loc, clock, start, t, running, speed,
                        warp, thickness, colorShift, w, h, resizes, frame, ever,
                        quitSeen, late, cerr, vao, vbo, ctx, win >>

----------------------------------------------------------------------------
(* The program *)

Program ==
    \/ CompileVertex
    \/ CompileFragment
    \/ CheckShaders
    \/ Link
    \/ DeleteShaders
    \/ CheckProgram
    \/ VertexArray
    \/ Locations
    \/ Session
    \/ LoopTest
    \/ PollEvent
    \/ PollEmpty
    \/ ReadClock
    \/ Clear
    \/ UseProgram
    \/ SetUniform
    \/ Draw
    \/ Swap
    \/ Delay
    \/ Cleanup

Next == Program \/ Post

Spec == Init /\ [][Next]_vars

SpecClamp == InitClamp /\ [][Next]_vars

SpecDemos == InitDemos /\ [][Next]_vars

SpecKeys == InitKeys /\ [][Next]_vars

SpecFaults == InitFaults /\ [][Next]_vars

\* The program keeps running: whenever it can take a step it eventually does.
SpecLive == InitLive /\ [][Next]_vars /\ WF_vars(Program)

----------------------------------------------------------------------------
(* The speed keys at the width of a float: from 6.0f, UP and DOWN key-downs *)
(* (226-227), either many DOWN and a few UP or many UP and a few DOWN       *)

Host == << variant, pc, exitCode, vs, fs, prog, shaders, programs, status, current, uni,
           viewport, loc, clock, start, t, running, speed, warp, thickness,
           colorShift, w, h, queue, env, expect, resizes, frame, ever, quitSeen,
           late, cerr, vao, vbo, ctx, win, glError >>

InitSpeed ==
    /\ InitHost({"circles"}, {AnyEvents})
    /\ fspeed \in { [value |-> Six, ups |-> MaxIncr, downs |-> MaxDown],
                    [value |-> Six, ups |-> MaxUp, downs |-> MaxIncr] }
    /\ frag = NoFragment

\* if (e.key.keysym.sym == SDLK_UP) speed *= 1.1f;  (226)
PressUp ==
    /\ fspeed.ups > 0
    /\ fspeed' = [fspeed EXCEPT !.value = FMul(@, OnePointOne), !.ups = @ - 1]
    /\ UNCHANGED << Host, frag >>

\* if (e.key.keysym.sym == SDLK_DOWN) speed /= 1.1f;  (227)
PressDown ==
    /\ fspeed.downs > 0
    /\ fspeed' = [fspeed EXCEPT !.value = FDiv(@, OnePointOne), !.downs = @ - 1]
    /\ UNCHANGED << Host, frag >>

NextSpeed == PressUp \/ PressDown

SpecSpeed == InitSpeed /\ [][NextSpeed]_vars

----------------------------------------------------------------------------
(* The fragment shaders, one invocation at a time.  sin, atan, exp and the  *)
(* noise are not computed: a value they enter is carried as the interval    *)
(* [lo, hi] that sin in [-1, 1] and the clamps of the code leave it in; a   *)
(* value the code computes by arithmetic alone is exact (lo = hi).          *)
(* Division by zero has an undefined result in GLSL: what it reaches is     *)
(* marked undefined.                                                        *)

\* shader1-circles.cpp, unnamed/part_000, unnamed/part_001,
\* shader3-tunnel-DEV-NOT-WORKING.cpp and the first program of
\* shader5-45single.cpp.
Shaders == {"circles", "swirl", "rings", "dev", "single"}

\* The shaders that march a ray.
Marching == {"circles", "swirl"}

Exactly(x) == [lo |-> x, hi |-> x]
Between(a, b) == [lo |-> a, hi |-> b]

\* vec2 safeResolution(vec2 res)  (shader5-45single.cpp 38-42)
safeResolution(res) ==
    IF res[1] <= 0 \/ res[2] <= 0 THEN << 1280, 720 >> ELSE res

\* The resolution main() divides by.
Resolution(sh, res) == IF sh = "single" THEN safeResolution(res) ELSE res

\* gl_FragCoord of pixel n: its centre.
FragCoord(n) == Rat(2 * n + 1, 2)

\* The coordinates p of the pixel, for a divisor other than zero.
\*   circles: p = uv * 2 - 1; p.x *= iResolution.x / iResolution.y  (76-77),
\*            uv being the pixel's place in the viewport (22)
\*   swirl:   the same  (unnamed/part_000 79-80), before the centre moves
\*   others:  p = (gl_FragCoord.xy * 2 - res.xy) / res.y
PixelCoordinates(sh, px, py, view, res) ==
    IF sh \in Marching
    THEN << RMul(RSub(RMul(RDiv(FragCoord(px), Rat(view[1], 1)), Rat(2, 1)), Rat(1, 1)),
                 Rat(res[1], res[2])),
            RSub(RMul(RDiv(FragCoord(py), Rat(view[2], 1)), Rat(2, 1)), Rat(1, 1)) >>
    ELSE << Rat(2 * px + 1 - res[1], res[2]), Rat(2 * py + 1 - res[2], res[2]) >>

\* Distances of the ray march, in units of 1/10000.
Scale == 10000
MinStep == 200           \* 0.02  (104)
FarAway == 100 * Scale   \* if (t > 100.0) break  (105)
RadiusLow == 5000        \* radius = 1.0 + wave + rings >= 1.0 - 0.3 - 0.2  (69-71)
RadiusHigh == 15000      \* radius <= 1.0 + 0.3 + 0.2
MarchSteps == 120        \* for (int i = 0; i < 120; i++)  (88)

\* rd = normalize(vec3(p.xy, -1.5 + 0.3 * sin(iTime * 0.2)))  (81): the ray leaves
\* the axis by at most (|p.x| + |p.y|) / 1.2 per unit of t; in units of 1/10000,
\* rounded up.
Slope(p) ==
    LET a == RAdd(Rat(Abs(p[1].n), p[1].d), Rat(Abs(p[2].n), p[2].d))
    IN  (a.n * 100000) \div (a.d * 12) + 1

\* The loop of the ray march, in units of 1/10000:
\*   circles: for(int i=0;i<120;i++), t += max(0.02, 0.5 * abs(d)),
\*            if(t > 100.0) break  (88, 104, 105)
\*   swirl:   for(int i=0;i<140;i++), t += max(0.015, 0.45 * abs(d)),
\*            if(t > 200.0) break  (unnamed/part_000 111, 135, 136), its radius
\*            1.0 + wave + rings within 1 -+ (0.35 + 0.22)  (66-68)
Loop(sh) ==
    IF sh = "circles"
    THEN [steps |-> MarchSteps, floor |-> MinStep, gain |-> Rat(1, 2), cutoff |-> FarAway,
          radiusLow |-> RadiusLow, radiusHigh |-> RadiusHigh]
    ELSE [steps |-> 140, floor |-> 150, gain |-> Rat(9, 20), cutoff |-> 200 * Scale,
          radiusLow |-> 4300, radiusHigh |-> 15700]

\* How far from the axis the ray may start in swirl: ro.xy = centerMove * 2,
\* centerMove within (0.35, 0.25) * (0.5 + 0.5 * warp) + 0.08 * noise
\* (unnamed/part_000 83-85, 100); rounded up.
SwirlStart(warp_) ==
    (2 * (3500 + 2500) * (warp_.d + warp_.n)) \div (2 * warp_.d) + 1 + 2 * (800 + 800)

\* The least and the greatest abs(d) that d = r - radius (72) may have at
\* travel tHi, r = length(pos.xy) being at most slope * t (circles) or the
\* start plus t (swirl); rounded outwards to what the gain divides.
Distances(sh, tHi, p, warp_) ==
    LET L == Loop(sh)
        rHi == IF sh = "circles" THEN ((tHi \div 100 + 1) * Slope(p)) \div 100 + 1
                                 ELSE SwirlStart(warp_) + tHi
        dLo == IF rHi < L.radiusLow THEN L.radiusLow - rHi ELSE 0
        dHi == Max(L.radiusHigh, rHi - L.radiusLow)
        g == L.gain.d
    IN  Between(dLo - (dLo % g), dHi + ((g - (dHi % g)) % g))

\* Mutant: the floor is forgotten.
Step_NoFloor(sh, d) == (Loop(sh).gain.n * d) \div Loop(sh).gain.d

\* Mutant: the floor is added.
Step_Sum(sh, d) == Loop(sh).floor + (Loop(sh).gain.n * d) \div Loop(sh).gain.d

\* The step of one pass for abs(d) = d:  max(0.02, 0.5 * abs(d))  (104).
Step(sh, d) == Max(Loop(sh).floor, (Loop(sh).gain.n * d) \div Loop(sh).gain.d)

\* The least and the greatest step for distances within dist.
StepBounds(sh, dist) == Between(Step(sh, dist.lo), Step(sh, dist.hi))

\* depth = clamp(exp(-0.02 * t), 0.0, 1.0)  (109) is at most 1 / (1 + 0.02 * t),
\* for exp(x) >= 1 + x.
DepthCeiling(tLo) == Rat(50 * Scale, 50 * Scale + tLo)

\* Mutant: the dev shader writes the tunnel colour it has computed, vec4(col, 1.0).
Colour_Tunnel(sh, p) ==
    CASE sh \in Marching -> << Between(Rat(0, 1), Rat(1, 1)), Between(Rat(0, 1), Rat(1, 1)),
                              Between(Rat(0, 1), Rat(1, 1)) >>
      [] sh = "rings"   -> << Between(Rat(0, 1), Rat(1, 1)), Between(Rat(0, 1), Rat(6, 10)),
                             Between(Rat(3, 10), Rat(13, 10)) >>
      [] sh = "dev"     -> << Between(Rat(0, 1), Rat(2, 1)), Between(Rat(0, 1), Rat(2, 1)),
                             Between(Rat(0, 1), Rat(2, 1)) >>
      [] sh = "single"  -> << Between(RMul(Rat(12, 100), Rat(45, 100)), Rat(95, 100)),
                             Between(RMul(Rat(25, 100), Rat(45, 100)), Rat(30, 100)),
                             Between(RMul(Rat(10, 100), Rat(45, 100)), Rat(90, 100)) >>

\* The colour written, channel by channel, from coordinates p.
\*   circles: col = pow(clamp(col, 0.0, 1.0), vec3(0.8))  (126)
\*   swirl:   col = pow(clamp(col, 0.0, 1.0), vec3(0.85))  (unnamed/part_000 182)
\*   rings:   vec3(0.5 + 0.5 * v, 0.3 + 0.3 * v, 0.8 - 0.5 * v), v a product of two
\*            sines  (unnamed/part_001 40-45)
\*   dev:     vec4(p * 0.5 + 0.5, 0.0, 1.0)  (shader3-tunnel-DEV-NOT-WORKING.cpp 211)
\*   single:  mix(baseA, baseB, stripes) * (0.45 + 0.55 * rings), stripes and rings
\*            in [0, 1]  (shader5-45single.cpp 55-61)
Colour(sh, p) ==
    CASE sh \in Marching -> << Between(Rat(0, 1), Rat(1, 1)), Between(Rat(0, 1), Rat(1, 1)),
                              Between(Rat(0, 1), Rat(1, 1)) >>
      [] sh = "rings"   -> << Between(Rat(0, 1), Rat(1, 1)), Between(Rat(0, 1), Rat(6, 10)),
                             Between(Rat(3, 10), Rat(13, 10)) >>
      [] sh = "dev"     -> << Exactly(RAdd(RMul(p[1], Rat(1, 2)), Rat(1, 2))),
                             Exactly(RAdd(RMul(p[2], Rat(1, 2)), Rat(1, 2))),
                             Exactly(Rat(0, 1)) >>
      [] sh = "single"  -> << Between(RMul(Rat(12, 100), Rat(45, 100)), Rat(95, 100)),
                             Between(RMul(Rat(25, 100), Rat(45, 100)), Rat(30, 100)),
                             Between(RMul(Rat(10, 100), Rat(45, 100)), Rat(90, 100)) >>

Black == << Exactly(Zero), Exactly(Zero), Exactly(Zero) >>

\* Angles are in units of 1/10000000 rad, sines and palette channels in units of
\* 1/1000000, phases and colorShift in hundredths.
AngleUnit == 10000000
Micro == 1000000
TwoPiLow == 62831853     \* 2 * pi lies between these two
TwoPiHigh == 62831854
Literal == 62831800      \* 6.28318  (shader1-circles.cpp 58-60)
LiteralError == 3        \* the binary32 nearest to 6.28318 is within 3 units of it

\* An interval holding sin(angle):
\*   sin(0) = 0;
\*   x - x^3/6 <= sin(x) <= x - x^3/6 + x^5/120 for x = n/10 in (0, 2];
\*   -(2*pi - x) <= sin(x) <= -(2*pi - x) + (2*pi - x)^3/6 just below 2 * pi;
\*   [-1, 1] otherwise.
SinBounds(angle) ==
    CASE angle = 0 -> Exactly(0)
      [] angle > 0 /\ angle <= 2 * AngleUnit /\ angle % (AngleUnit \div 10) = 0 ->
            LET n == angle \div (AngleUnit \div 10)
                lo == ((600 * n - n * n * n) * 1000) \div 6
            IN  Between(lo, Min(Micro, lo + 1 + (n * n * n * n * n) \div 12 + 1))
      [] angle >= TwoPiLow - 1000 /\ angle < TwoPiLow ->
            Between(0 - ((TwoPiHigh - angle) \div 10 + 1),
                    0 - ((TwoPiLow - angle - 1) \div 10))
      [] OTHER -> Between(0 - Micro, Micro)

\* sin of a product of the literal 6.28318 with phase/100, the literal being
\* rounded to binary32.
SinOfTurns(phase) ==
    IF phase = 100
    THEN Between(SinBounds(Literal - LiteralError).lo, SinBounds(Literal + LiteralError).hi)
    ELSE SinBounds((Literal \div 100) * phase)

\* 0.5 + 0.5 * s
HalfPlusHalf(s) == Between(Micro \div 2 + s.lo \div 2, Micro \div 2 - ((0 - s.hi) \div 2))

\* vec3 palette(float t)  (shader1-circles.cpp 56-62), t being phase / 100
palette(phase, colorShift_) ==
    << HalfPlusHalf(SinOfTurns(phase + 0 + colorShift_)),
       HalfPlusHalf(SinOfTurns(phase + 33 + colorShift_)),
       HalfPlusHalf(SinOfTurns(phase + 66 + colorShift_)) >>

\* smoothstep(edge0, edge1, x): t = clamp((x - edge0) / (edge1 - edge0), 0, 1);
\* t * t * (3 - 2 * t), also where the code passes edge0 > edge1 (321).
smoothstep(edge0, edge1, x) ==
    LET q == RDiv(RSub(x, edge0), RSub(edge1, edge0))
        c == IF RLess(q, Zero) THEN Zero ELSE IF RLess(Rat(1, 1), q) THEN Rat(1, 1) ELSE q
    IN  RMul(RMul(c, c), RSub(Rat(3, 1), RMul(Rat(2, 1), c)))

\* The colours c1 and c2 of ThorTunnel's palette, in hundredths (316-317).
c1 == << 12, 25, 100 >>
c2 == << 100, 45, 8 >>

\* mix(c1, c2, wheel) * dark, channel k, for wheel an interval and dark exact.
Mix(k, wheel, dark) ==
    LET d == c2[k] - c1[k]
        x == d * wheel.lo
        y == d * wheel.hi
        lo == c1[k] * (Micro \div 100) + Min(x, y) \div 100
        hi == c1[k] * (Micro \div 100) - ((0 - Max(x, y)) \div 100)
    IN  Between((lo * dark.n) \div dark.d, 0 - ((0 - hi * dark.n) \div dark.d))

\* vec3 palette(float a, float r, float t)  (shader5-45single.cpp 314-323), a in
\* tenths of a radian, its t (phase) in hundredths:
\*   wheel = 0.5 + 0.5 * sin(a * 2.0 + t * 0.8 + colorShift)
\*   col = mix(c1, c2, wheel) * (0.5 + 0.5 * smoothstep(1.6, 0.2, r))
ThorPalette(a, r, phase, colorShift_) ==
    LET wheel == HalfPlusHalf(SinBounds(2 * a * (AngleUnit \div 10)
                                         + 8 * phase * (AngleUnit \div 1000)
                                         + colorShift_ * (AngleUnit \div 100)))
        dark == RAdd(Rat(1, 2), RMul(Rat(1, 2), smoothstep(Rat(16, 10), Rat(2, 10), r)))
    IN  << Mix(1, wheel, dark), Mix(2, wheel, dark), Mix(3, wheel, dark) >>

\* The palette of a program at a phase and a colorShift.
PaletteOf(which, phase, colorShift_) ==
    IF which = "circles" THEN palette(phase, colorShift_)
    ELSE ThorPalette(0, Zero, phase, colorShift_)

----------------------------------------------------------------------------
(* One invocation of a fragment shader, or of a palette *)

View == << 1280, 720 >>                                 \* int w = 1280, h = 720
Pixels == { << 0, 0 >>, << 640, 360 >> }
Resolutions == { << 1280, 720 >>, << 0, 0 >>, << 800, 0 >> }
Phases == {0, 50}
Shifts == {0, 10}

\* The time and the parameters of the first frame, and those of a frame one
\* second later, after UP, RIGHT, x and c.
AtStart == [time |-> Zero, speed |-> DefaultSpeed, warp |-> DefaultWarp,
            thickness |-> DefaultThickness, colorShift |-> DefaultColorShift]
Later == [time |-> Rat(1, 1), speed |-> SpeedUp(DefaultSpeed), warp |-> WarpUp(DefaultWarp),
          thickness |-> ThicknessUp(DefaultThickness),
          colorShift |-> ColorShiftUp(DefaultColorShift)]

MainCall(sh, px, res, u) ==
    [call |-> "main", stage |-> "start", shader |-> sh, pixel |-> px, res |-> res,
     uniforms |-> u,
     divisor |-> 1, defined |-> TRUE, p |-> << Zero, Zero >>, i |-> 0,
     t |-> Exactly(0), dist |-> Exactly(0), step |-> Exactly(0), out |-> 0,
     col |-> Black]

PaletteCallOf(which, phase, shift) ==
    [call |-> "palette", stage |-> "start", shader |-> which, phase |-> phase,
     shift |-> shift, pal |-> Black, palPhase |-> Black, palShift |-> Black]

InitShade ==
    /\ InitHost({"circles"}, {QuitEvents})
    /\ fspeed = NoPresses
    /\ frag \in { MainCall(sh, px, res, u) : sh \in Shaders, px \in Pixels,
                                              res \in Resolutions, u \in {AtStart, Later} }
           \cup { PaletteCallOf(which, phase, shift) :
                      which \in {"circles", "thor"}, phase \in Phases, shift \in Shifts }

\* The first statements of main(): the resolution divided by, and p.
Coordinates ==
    /\ frag.call = "main" /\ frag.stage = "start"
    /\ LET res == Resolution(frag.shader, frag.res)
           ok == res[2] # 0
       IN  frag' = [frag EXCEPT
                       !.divisor = res[2],
                       !.defined = ok,
                       !.p = IF ok
                             THEN PixelCoordinates(frag.shader, frag.pixel[1], frag.pixel[2],
                                                   View, res)
                             ELSE @,
                       !.stage = IF ok /\ frag.shader \in Marching THEN "march" ELSE "shade"]
    /\ UNCHANGED << Host, fspeed >>

\* One pass of the loop of the ray march (88-106), for two rays at once: t.lo
\* is the travel of the ray that meets the least abs(d) at every pass, t.hi
\* that of the ray that meets the greatest.  A ray whose t exceeds the cutoff
\* leaves the loop (105) and its t stays; out is the pass at which the second
\* ray left (0: it has not).
MarchStep ==
    /\ frag.call = "main" /\ frag.stage = "march"
    /\ LET L == Loop(frag.shader)
           inside == frag.t.hi <= L.cutoff
           dist == Distances(frag.shader, Min(frag.t.hi, L.cutoff), frag.p,
                             frag.uniforms.warp)
           st == StepBounds(frag.shader, dist)
           lo == frag.t.lo + st.lo
           hi == IF inside THEN frag.t.hi + st.hi ELSE frag.t.hi
       IN  frag' = [frag EXCEPT
                       !.i = @ + 1,
                       !.dist = dist,
                       !.step = st,
                       !.t = Between(lo, hi),
                       !.out = IF inside /\ hi > L.cutoff THEN frag.i + 1 ELSE @,
                       !.stage = IF frag.i + 1 = L.steps \/ lo > L.cutoff
                                 THEN "shade" ELSE "march"]
    /\ UNCHANGED << Host, fspeed >>

\* The colour written; nothing defined after a division by zero.
Shade ==
    /\ frag.call = "main" /\ frag.stage = "shade"
    /\ frag' = [frag EXCEPT
                   !.col = IF frag.defined THEN Colour(frag.shader, frag.p) ELSE @,
                   !.stage = "done"]
    /\ UNCHANGED << Host, fspeed >>

\* The palette at a phase, one phase later, and one colorShift later.
PaletteCall ==
    /\ frag.call = "palette" /\ frag.stage = "start"
    /\ frag' = [frag EXCEPT
                   !.pal = PaletteOf(frag.shader, frag.phase, frag.shift),
                   !.palPhase = PaletteOf(frag.shader, frag.phase + 100, frag.shift),
                   !.palShift = PaletteOf(frag.shader, frag.phase, frag.shift + 100),
                   !.stage = "done"]
    /\ UNCHANGED << Host, fspeed >>

NextShade == Coordinates \/ MarchStep \/ Shade \/ PaletteCall

SpecShade == InitShade /\ [][NextShade]_vars

----------------------------------------------------------------------------
(* Positions and readings used by the properties *)

\* Positions from the loop's test to the releases after it (221-268).
LoopPcs == {"loop", "poll", "clock", "clear", "use"} \cup Slots
               \cup {"draw", "swap", "delay", "cleanup"}

\* The session has started: the parameters hold values.
InSession == pc \in LoopPcs \/ (pc = "done" /\ exitCode = 0)

\* The value the program's uniform for slot s holds.
UniformOf(s) == uni[loc[s]]

Last(q) == q[Len(q)]

----------------------------------------------------------------------------
(* C1: from the defaults, after any sequence of key-down events, warp is    *)
(* never below 0.1 and thickness is never below 0.01, in every state of the *)
(* session loop.                                                            *)

C1_ClampsHold ==
    InSession => /\ RLeq(WarpFloor, warp)
                 /\ RLeq(ThicknessFloor, thickness)

\* Both floors reached and pressed against: ten LEFT (nine reach 0.1 from 1.0)
\* and eighteen z (seventeen reach 0.01 from 0.18) have all been handled.
C1_Witness ==
    /\ pc = "draw"
    /\ warp = WarpFloor
    /\ thickness = ThicknessFloor
    /\ env.left[KeyDown("LEFT")] = 0
    /\ env.left[KeyDown("z")] = 0
    /\ env.total <= 1

----------------------------------------------------------------------------
(* C2, as stated: whenever a Resize{w,h} is handled in the drain of an      *)
(* iteration, the resolution written for that iteration's dispatch is (w,h). *)

C2_EveryResizeReachesDispatch ==
    pc = "draw" =>
        \A i \in 1 .. Len(resizes) : UniformOf("resolution") = resizes[i]

(* C2, amended: when Resize events are handled in the drain of an iteration, *)
(* the resolution written for that iteration's dispatch is the (w,h) of the  *)
(* last of them; and every dispatch uses the size of the latest Resize       *)
(* posted so far (the window's initial size when there was none).            *)

C2_LastResizeReachesDispatch ==
    pc = "draw" =>
        /\ resizes # << >> => UniformOf("resolution") = Last(resizes)
        /\ UniformOf("resolution") = << expect.w, expect.h >>

\* A resize to 640x480 and then one to 800x600 were drained in this iteration.
C2_Witness ==
    /\ pc = "draw"
    /\ resizes = << << 640, 480 >>, << 800, 600 >> >>
    /\ UniformOf("resolution") = << 800, 600 >>

----------------------------------------------------------------------------
(* C3: in each iteration every pending event is applied, in queue order,    *)
(* before the frame's dispatch: the locals are always the defaults with the *)
(* handled events applied, so that applying the pending ones to them gives  *)
(* the defaults with every posted event applied in order; at the dispatch   *)
(* nothing is pending, and of two Resize events the last one's size is used. *)

C3_AllPendingApplied ==
    /\ pc \in LoopPcs => HandleAll(queue, Locals) = expect
    /\ pc = "draw" => /\ queue = << >>
                      /\ Locals = expect
                      /\ UniformOf("resolution") = << expect.w, expect.h >>
                      /\ viewport = << expect.w, expect.h >>

\* Two resizes were pending together and the later one, 640x480, is dispatched.
C3_Witness ==
    /\ pc = "draw"
    /\ resizes = << << 800, 600 >>, << 640, 480 >> >>
    /\ UniformOf("resolution") = << 640, 480 >>
    /\ env.total = 0

----------------------------------------------------------------------------
(* C4: when the compile of either shader fails, or the link fails, the      *)
(* program returns 1 before the loop: no event is polled, no input is       *)
(* written, nothing is dispatched or presented.                             *)

CompileFailed ==
    \E n \in DOMAIN status : status[n] = "compile_failed"

LinkFailed ==
    \E n \in DOMAIN status : status[n] = "link_failed"

C4_FailureAbortsStartup ==
    /\ (CompileFailed \/ LinkFailed) => (ever = {} /\ pc \notin LoopPcs)
    /\ CompileFailed => pc \in {"compile_fs", "check_shaders", "done"}
    /\ LinkFailed => pc \in {"delete_shaders", "check_prog", "done"}
    /\ (pc = "done" /\ (CompileFailed \/ LinkFailed)) => exitCode = 1

\* The vertex shader failed to compile, the fragment shader compiled, and the
\* program has returned 1.
C4_Witness ==
    /\ pc = "done"
    /\ exitCode = 1
    /\ vs = 0
    /\ fs # 0

----------------------------------------------------------------------------
(* C5: when one of the inputs the shader needs fails to resolve to a slot,  *)
(* startup is aborted: the loop is not entered with an unresolved required  *)
(* slot.                                                                    *)

C5_RequiredSlotsResolved ==
    pc \in LoopPcs =>
        \A s \in DOMAIN RequiredUniforms(variant) : loc[s] # NoLocation

----------------------------------------------------------------------------
(* C6: once a Quit event or a key-down of escape has been handled, no new   *)
(* iteration starts (the next test of the loop leaves it), and the program  *)
(* reaches its end, returning 0.                                            *)

C6_QuitEndsLoop ==
    /\ [][(quitSeen /\ pc = "loop") => pc' = "cleanup"]_vars
    /\ [][(quitSeen /\ pc # "poll") => pc' # "poll"]_vars
    /\ quitSeen ~> (pc = "done" /\ exitCode = 0)

\* The program has ended after a Quit or escape was handled.
C6_Witness ==
    /\ quitSeen
    /\ pc = "done"
    /\ exitCode = 0

----------------------------------------------------------------------------
(* C7: the lifecycle only moves Uncompiled -> Compiled -> Linked -> Active; *)
(* Failed is entered only from Uncompiled (a compile fails) or Compiled     *)
(* (the link fails); once Failed nothing further happens: the loop runs     *)
(* only with a program that is Linked or Active.  The lifecycle is read     *)
(* from the objects' compile and link status and the current program, while *)
(* the program object exists (up to the releases at 263-268).               *)

Lifecycle ==
    IF CompileFailed \/ LinkFailed THEN "Failed"
    ELSE IF \E p \in DOMAIN status : status[p] = "linked"
         THEN IF Linked(current) THEN "Active" ELSE "Linked"
         ELSE IF Cardinality({n \in DOMAIN status : status[n] = "compiled"}) = 2
              THEN "Compiled"
              ELSE "Uncompiled"

LifecycleMoves ==
    { << "Uncompiled", "Compiled" >>, << "Compiled", "Linked" >>,
      << "Linked", "Active" >>, << "Uncompiled", "Failed" >>,
      << "Compiled", "Failed" >> }

C7_LifecycleOrder ==
    [][pc # "cleanup" =>
          /\ Lifecycle' = Lifecycle \/ << Lifecycle, Lifecycle' >> \in LifecycleMoves
          /\ pc' \in LoopPcs => Lifecycle' \in {"Linked", "Active"}]_vars

\* The program is Active and about to be dispatched.
C7_Witness ==
    /\ Lifecycle = "Active"
    /\ pc = "draw"

----------------------------------------------------------------------------
(* C8: every iteration does, in this order and once each: the drain, the    *)
(* reading of the clock, (the clear, glUseProgram,) the writes of time,     *)
(* resolution, speed, warp, thickness and colorShift, one draw, one present, *)
(* one yield; at the draw all six uniforms hold this frame's values.        *)

FrameSteps == << "drain", "clock", "clear", "use", "time", "resolution", "speed",
                 "warp", "thickness", "colorShift", "draw", "present", "yield" >>

IsPrefix(a, b) == Len(a) <= Len(b) /\ \A i \in 1 .. Len(a) : a[i] = b[i]

C8_FrameOrder ==
    /\ IsPrefix(frame, FrameSteps)
    /\ pc = "draw" => /\ Len(frame) = 10
                      /\ \A s \in Slots : UniformOf(s) = Argument(s)
    /\ pc = "swap" => Len(frame) = 11
    /\ (pc = "loop" /\ frame # << >>) => frame = FrameSteps

\* An iteration has just been completed.
C8_Witness ==
    /\ pc = "loop"
    /\ frame = FrameSteps

----------------------------------------------------------------------------
(* C9: the clock's origin is taken once; the time written for a frame is    *)
(* never negative and never smaller than the time written before it.        *)

C9_TimeMonotonic ==
    [][/\ start # Unassigned => start' = start
       /\ pc = "time" => /\ RLeq(Zero, UniformOf("time")')
                         /\ RLeq(UniformOf("time"), UniformOf("time")')]_vars

\* A frame has been presented, the clock has advanced, and a later frame's
\* time, one tick, has been written.
C9_Witness ==
    /\ pc = "resolution"
    /\ "present" \in ever
    /\ UniformOf("time") = Rat(1, 1)

----------------------------------------------------------------------------
(* C10: each key-down applies one step of its mapping: UP speed*1.1, DOWN   *)
(* speed/1.1, RIGHT warp+0.1, LEFT max(0.1, warp-0.1), x thickness+0.01,    *)
(* z max(0.01, thickness-0.01), c colorShift+0.05, v colorShift-0.05, the   *)
(* last two without any bound.  The arithmetic is restated on numerators    *)
(* and denominators.                                                        *)

\* The step handles event e: it is the head of the queue and is taken out.
Handles(e) == pc = "poll" /\ queue # << >> /\ Head(queue) = e /\ queue' = Tail(queue)

Times(a, b, n, d) == a.n * b.d * d = b.n * n * a.d            \* a = b * n/d
Plus(a, b, n, d) == a.n * b.d * d = (b.n * d + n * b.d) * a.d \* a = b + n/d
AtLeast(b, n, d) == b.n * d >= n * b.d                        \* b >= n/d
Is(a, n, d) == a.n * d = n * a.d                              \* a = n/d

C10_KeySteps ==
    [][/\ Handles(KeyDown("UP")) => Times(speed', speed, 11, 10)
       /\ Handles(KeyDown("DOWN")) => Times(speed', speed, 10, 11)
       /\ Handles(KeyDown("RIGHT")) => Plus(warp', warp, 1, 10)
       /\ Handles(KeyDown("LEFT")) =>
             IF AtLeast(warp, 2, 10) THEN Plus(warp', warp, -1, 10)
                                     ELSE Is(warp', 1, 10)
       /\ Handles(KeyDown("x")) => Plus(thickness', thickness, 1, 100)
       /\ Handles(KeyDown("z")) =>
             IF AtLeast(thickness, 2, 100) THEN Plus(thickness', thickness, -1, 100)
                                           ELSE Is(thickness', 1, 100)
       /\ Handles(KeyDown("c")) => Plus(colorShift', colorShift, 1, 20)
       /\ Handles(KeyDown("v")) => Plus(colorShift', colorShift, -1, 20)]_vars

\* UP and then v have been handled: speed is 6.6 and colorShift is below zero.
C10_Witness ==
    /\ pc = "draw"
    /\ Is(speed, 66, 10)
    /\ Is(colorShift, -1, 20)

----------------------------------------------------------------------------
(* C11: speed is strictly positive in every reachable state: from 6.0f no   *)
(* sequence of UP and DOWN key-downs makes it zero or negative.  At the     *)
(* width of a float, division by 1.1f stops at 5 * 2^-149, where the        *)
(* quotient rounds back to the dividend, and multiplication ends at         *)
(* +infinity.                                                               *)

C11_SpeedPositive == Positive(fspeed.value)

\* DOWN has been pressed until speed no longer changes.
C11_Witness ==
    /\ fspeed.downs = 0
    /\ fspeed.ups = MaxIncr
    /\ fspeed.value = Float(5, MinExp)
    /\ FDiv(fspeed.value, OnePointOne) = fspeed.value

----------------------------------------------------------------------------
(* C12: from the end of the drain to the end of the dispatch of the same    *)
(* iteration the four parameters and the resolution do not change, nor the  *)
(* time once it is computed; the six values the dispatch reads are those    *)
(* the loop held when the drain ended; the parameters change only where     *)
(* they are initialised and in the handling of an event.                    *)

\* From the end of the drain (the clock is read next) to the draw call.
AfterDrain == {"clock", "clear", "use", "draw"} \cup Slots

Parameters == << speed, warp, thickness, colorShift >>

C12_FrameValuesFrozen ==
    [][/\ pc \in AfterDrain => /\ Parameters' = Parameters
                               /\ << w, h >>' = << w, h >>
                               /\ pc # "clock" => t' = t
       /\ Parameters' # Parameters => pc \in {"session", "poll"}
       /\ (pc = "draw" /\ pc' = "swap") =>
             /\ UniformOf("time")' = t
             /\ UniformOf("resolution")' = << expect.w, expect.h >>
             /\ UniformOf("speed")' = expect.speed
             /\ UniformOf("warp")' = expect.warp
             /\ UniformOf("thickness")' = expect.thickness
             /\ UniformOf("colorShift")' = expect.colorShift]_vars

\* A frame has been dispatched after UP and a resize were handled.
C12_Witness ==
    /\ pc = "swap"
    /\ Is(speed, 66, 10)
    /\ << w, h >> = << 800, 600 >>
    /\ UniformOf("speed") = speed
    /\ UniformOf("resolution") = << 800, 600 >>

----------------------------------------------------------------------------
(* C19: each shader is compiled exactly once and the program linked at most *)
(* once; a failed compile or link writes one diagnostic and yields 0;       *)
(* nothing is retried, and no link is attempted after a failed compile.     *)

ShaderObjects == {n \in DOMAIN status : status[n] \in {"compiled", "compile_failed"}}
ProgramObjects == {n \in DOMAIN status : status[n] \in {"linked", "link_failed"}}
FailedObjects == {n \in DOMAIN status : status[n] \in {"compile_failed", "link_failed"}}

C19_CompileLinkOnce ==
    /\ Cardinality(ShaderObjects) <= 2
    /\ pc \notin {"compile_vs", "compile_fs"} => Cardinality(ShaderObjects) = 2
    /\ Cardinality(ProgramObjects) <= 1
    /\ Len(cerr) = Cardinality(FailedObjects)
    /\ (IF vs = 0 THEN 1 ELSE 0) + (IF fs = 0 THEN 1 ELSE 0)
          = Cardinality({n \in DOMAIN status : status[n] = "compile_failed"})
    /\ prog = 0 <=> LinkFailed
    /\ CompileFailed => ProgramObjects = {}

\* The link has failed: one diagnostic, and main has returned 1.
C19_Witness ==
    /\ pc = "done"
    /\ exitCode = 1
    /\ prog = 0
    /\ cerr = << "Program link error" >>
    /\ Cardinality(ShaderObjects) = 2

----------------------------------------------------------------------------
(* C20: when the loop is reached, and as long as no event has been handled, *)
(* speed = 6.0, warp = 1.0, thickness = 0.18, colorShift = 0.0 and the      *)
(* resolution is 1280x720; a frame dispatched before any event is handled   *)
(* is drawn with exactly these values.                                      *)

\* Every event the environment has posted is still in the queue.
NoEventYet == env.total + Len(queue) = AnyEvents.total

C20_DefaultsAtStart ==
    /\ (pc \in LoopPcs /\ NoEventYet) =>
          /\ Is(speed, 6, 1)
          /\ Is(warp, 1, 1)
          /\ Is(thickness, 18, 100)
          /\ Is(colorShift, 0, 1)
          /\ << w, h >> = << 1280, 720 >>
    /\ (pc = "swap" /\ NoEventYet) =>
          /\ Is(UniformOf("speed"), 6, 1)
          /\ Is(UniformOf("warp"), 1, 1)
          /\ Is(UniformOf("thickness"), 18, 100)
          /\ Is(UniformOf("colorShift"), 0, 1)
          /\ UniformOf("resolution") = << 1280, 720 >>

\* The first frame has been dispatched, no event having been posted.
C20_Witness ==
    /\ pc = "swap"
    /\ NoEventYet
    /\ env.total = MaxEvents
    /\ "present" \notin ever
    /\ Is(UniformOf("thickness"), 18, 100)

----------------------------------------------------------------------------
(* C18: a failed dispatch is fatal: once a draw call has failed, the loop   *)
(* ends with the iteration of the failure (its present and yield, then the  *)
(* loop's test and the releases) and no event is polled, no uniform written *)
(* and no frame dispatched afterwards.                                      *)

DispatchFailed == glError # "GL_NO_ERROR"

C18_FailedDispatchIsFatal ==
    DispatchFailed => pc \in {"swap", "delay", "loop", "cleanup", "done"}

\* A fragment whose colour has been written.
Shaded == frag.stage = "done" /\ frag.call = "main"

\* A channel that is below 0 or above 1 whatever the sines are.
CertainlyOutside(ch) == RLess(ch.hi, Zero) \/ RLess(Rat(1, 1), ch.lo)

\* A channel that is within [0, 1] whatever the sines are.
CertainlyInside(ch) == RLeq(Zero, ch.lo) /\ RLeq(ch.hi, Rat(1, 1))

\* C13: for a resolution of positive width and height, each of the three colour
\* channels a fragment shader writes lies in [0, 1], in every program (here: no
\* channel is outside [0, 1] for every value the sines may take).
C13_ChannelsInUnitRange ==
    (Shaded /\ frag.res[1] > 0 /\ frag.res[2] > 0)
        => \A k \in 1..3 : ~CertainlyOutside(frag.col[k])

\* C14: with a resolution that has a component of zero or less, a fragment shader
\* divides by a fallback resolution, not by zero, and writes a defined colour with
\* channels in [0, 1].
C14_ResolutionGuard ==
    (Shaded /\ (frag.res[1] <= 0 \/ frag.res[2] <= 0))
        => /\ frag.divisor > 0
           /\ frag.defined
           /\ \A k \in 1..3 : CertainlyInside(frag.col[k])

\* C16: at time 0, with the default parameters and resolution 1280x720, the ray
\* march of the centre pixel (640, 360) ends with a depth factor of about 1: of
\* 9/10 at least.
C16_CentreDepthNearOne ==
    (Shaded /\ frag.shader = "circles" /\ frag.pixel = << 640, 360 >>
            /\ frag.res = << 1280, 720 >> /\ frag.uniforms = AtStart)
        => RLeq(Rat(9, 10), DepthCeiling(frag.t.lo))

\* Two palette values with a channel that differs whatever the sines are.
CertainlyDiffer(a, b) == \E k \in 1..3 : a[k].hi < b[k].lo \/ b[k].hi < a[k].lo

\* C17: the palette has period 1 in its phase: the palette of phase + 1 equals
\* the palette of phase, and so does the palette of colorShift + 1.
C17_PalettePeriodOne ==
    (frag.stage = "done" /\ frag.call = "palette")
        => /\ ~CertainlyDiffer(frag.pal, frag.palPhase)
           /\ ~CertainlyDiffer(frag.pal, frag.palShift)

----------------------------------------------------------------------------
(* The ray march *)

\* A ray is in the loop of the march; the loop of the shader being run.
InLoop == frag.stage = "march"
Marcher == Loop(frag.shader)

(* C21: the loop of the ray march of a pixel always ends: it makes at most  *)
(* as many passes as its budget (120, or 140) and no pass once the travel   *)
(* exceeds the cutoff (100, or 200); every pass adds the floor step at      *)
(* least, so the travel strictly increases, and a ray past the cutoff has   *)
(* left the loop and travels no further.                                    *)
C21_MarchTerminates ==
    /\ [](InLoop => /\ frag.i < Marcher.steps
                    /\ frag.t.lo <= Marcher.cutoff)
    /\ []((frag.stage \in {"shade", "done"} /\ frag.call = "main" /\ frag.defined
              /\ frag.shader \in Marching)
             => /\ frag.i <= Marcher.steps
                /\ frag.i = Marcher.steps \/ frag.t.lo > Marcher.cutoff)
    /\ [][InLoop => /\ frag'.i = frag.i + 1
                    /\ Marcher.floor > 0
                    /\ frag'.t.lo >= frag.t.lo + Marcher.floor
                    /\ IF frag.t.hi <= Marcher.cutoff
                       THEN frag'.t.hi >= frag.t.hi + Marcher.floor
                       ELSE frag'.t.hi = frag.t.hi]_vars

\* At pixel (0,0) one ray has left the loop by the cutoff before the budget was
\* used and another has made all 120 passes.
C21_Witness ==
    /\ Shaded
    /\ frag.shader = "circles"
    /\ frag.i = MarchSteps
    /\ frag.out > 0 /\ frag.out < MarchSteps
    /\ frag.t.hi > FarAway
    /\ frag.t.lo <= FarAway

\* gain * d for the gain of the shader being run.
Gained(d) == (Marcher.gain.n * d) \div Marcher.gain.d

\* A pass of the march has been made.
Passed == frag.stage \in {"march", "shade", "done"} /\ frag.call = "main" /\ frag.i > 0

(* C22, as stated: at every pass of the ray march the travel advances by a  *)
(* small floor step plus a multiple of the absolute value of the distance   *)
(* estimate: step = floor + k * |d|.                                        *)
C22_StepIsFloorPlusMultiple ==
    Passed => /\ frag.step.lo = Marcher.floor + Gained(frag.dist.lo)
              /\ frag.step.hi = Marcher.floor + Gained(frag.dist.hi)

(* C22, amended: at every pass of the ray march the travel advances by the  *)
(* greater of a small floor step and a multiple of the absolute value of    *)
(* the distance estimate: step = max(floor, k * |d|).                       *)
C22_StepIsGreaterOfFloorAndMultiple ==
    Passed => /\ frag.step.lo = Max(Marcher.floor, Gained(frag.dist.lo))
              /\ frag.step.hi = Max(Marcher.floor, Gained(frag.dist.hi))
              /\ frag.step.lo >= Marcher.floor

\* The swirl shader at its last pass: on one ray the floor 0.015 is the step
\* (abs(d) = 0), on the other 0.45 * abs(d) is.
C22_Witness ==
    /\ Shaded
    /\ frag.shader = "swirl"
    /\ frag.i = 140
    /\ frag.dist.lo = 0 /\ frag.step.lo = 150
    /\ frag.step.hi > 150 /\ 20 * frag.step.hi = 9 * frag.dist.hi

----------------------------------------------------------------------------
(* C30: the dev shader presents the placeholder (p * 0.5 + 0.5, 0): a       *)
(* colour fixed by the pixel and the resolution alone, the same at time 0   *)
(* with the default parameters and a second later with other parameters;    *)
(* the tunnel colour it computes is not what it writes.                     *)

C30_DevShowsPlaceholder ==
    (Shaded /\ frag.shader = "dev")
        => /\ frag.defined = (frag.res[2] # 0)
           /\ frag.defined =>
                frag.col = << Exactly(Rat(2 * frag.pixel[1] + 1 - frag.res[1] + frag.res[2],
                                          2 * frag.res[2])),
                              Exactly(Rat(2 * frag.pixel[2] + 1, 2 * frag.res[2])),
                              Exactly(Zero) >>

\* The centre pixel at 1280x720, a second later and with other parameters.
C30_Witness ==
    /\ Shaded
    /\ frag.shader = "dev"
    /\ frag.uniforms = Later
    /\ frag.pixel = << 640, 360 >>
    /\ frag.res = << 1280, 720 >>
    /\ frag.col[1] = Exactly(Rat(721, 1440))

----------------------------------------------------------------------------
(* C23: the six slots are resolved once, after the link has succeeded and   *)
(* before the first iteration of the loop; in the loop the table of slots   *)
(* does not change and holds, for each input, the location of the uniform   *)
(* of that name; every write of an input in a frame goes to the slot        *)
(* resolved at startup.                                                     *)

\* The write of the input at pc goes to the slot the table holds for it.
WritesResolvedSlot ==
    /\ loc' = loc
    /\ uni' = [uni EXCEPT ![loc[pc]] = Argument(pc)]

C23_SlotsResolvedOnce ==
    /\ [][loc' # loc => /\ pc = "locations" /\ pc' = "session"
                        /\ Linked(prog)
                        /\ ever = {}
                        /\ \A s \in Slots : loc[s] = Unassigned]_vars
    /\ [](pc \in LoopPcs =>
            \A s \in Slots : /\ loc[s] \in 0 .. Len(FragmentUniforms(variant)) - 1
                             /\ FragmentUniforms(variant)[loc[s] + 1] = LookupName(s))
    /\ [][(pc \in Slots) => WritesResolvedSlot]_vars

\* A later frame is about to be dispatched; thickness, changed by x, has been
\* written to the slot resolved for it.
C23_Witness ==
    /\ pc = "draw"
    /\ "present" \in ever
    /\ loc["thickness"] = 4
    /\ uni[4] = Rat(19, 100)

----------------------------------------------------------------------------
(* C24: in every frame the program is made current before any input is      *)
(* written: each of the six writes of a frame is made while the linked      *)
(* program is the current one, and the frame is dispatched with that same   *)
(* program current.                                                         *)

C24_ProgramActiveForWrites ==
    /\ pc \in Slots \cup {"draw"} => /\ current = prog
                                  /\ Linked(prog)
                                  /\ prog \in programs
    /\ \A i \in 1 .. Len(frame) :
          frame[i] \in Slots \cup {"draw"} => \E j \in 1 .. i - 1 : frame[j] = "use"

\* The dispatch of a later frame, all six inputs written.
C24_Witness ==
    /\ pc = "swap"
    /\ "present" \in ever
    /\ current = prog
    /\ Len(frame) = 11
    /\ frame[4] = "use"

(***************************************************************************)
(* Quit during a frame                                                     *)
(***************************************************************************)

\* C25: a Quit or escape event does not cancel the frame in progress: the
\* iteration that handled it is still in the loop body, and when control is
\* back at the loop test it has written the six inputs, dispatched and
\* presented exactly one frame; the test then leaves the loop.
C25_QuitFinishesFrame ==
    /\ [](quitSeen /\ pc \in {"poll", "clock", "clear", "use", "draw", "swap", "delay"}
              \cup Slots => ~running /\ IsPrefix(frame, FrameSteps))
    /\ [](quitSeen /\ pc = "loop" => ~running /\ frame = FrameSteps)
    /\ [][(quitSeen /\ pc = "loop") => pc' = "cleanup"]_vars
    /\ [][(quitSeen /\ pc = "poll" /\ pc' # "poll") => pc' = "clock"]_vars

C25_Witness == quitSeen /\ pc = "loop" /\ frame = FrameSteps /\ ~running

\* C26: the drain does not stop at a Quit or escape event: an event that is
\* pending after it is handled like any other, the drain is left only with the
\* queue empty, and the final frame is dispatched with every posted event
\* applied to the parameters, the size and the viewport.
C26_DrainGoesPastQuit ==
    /\ [][(quitSeen /\ pc = "poll" /\ queue # << >> /\ queue' # queue) =>
              \/ /\ queue' = Tail(queue)
                 /\ late' = << Head(queue) >>
                 /\ Locals' = HandleEvent(Head(queue), Locals)
                 /\ pc' = "poll"
              \/ /\ Len(queue') = Len(queue) + 1
                 /\ Locals' = Locals]_vars
    /\ [][(quitSeen /\ pc = "poll" /\ pc' # "poll") => queue = << >>]_vars
    /\ [](quitSeen /\ pc \in AfterDrain =>
              /\ queue = << >>
              /\ Locals = expect)
    /\ [](quitSeen /\ pc = "draw" =>
              /\ UniformOf("resolution") = << expect.w, expect.h >>
              /\ << UniformOf("speed"), UniformOf("warp"), UniformOf("thickness"),
                    UniformOf("colorShift") >> =
                 << expect.speed, expect.warp, expect.thickness, expect.colorShift >>)

\* The window was closed and then resized to 800x600 within one drain; the
\* final frame is dispatched at 800x600.
C26_Witness ==
    /\ pc = "draw"
    /\ late = << SizeChanged(<< 800, 600 >>) >>
    /\ ~running
    /\ << w, h >> = << 800, 600 >>
    /\ UniformOf("resolution") = << 800, 600 >>

(***************************************************************************)
(* What one event changes                                                  *)
(***************************************************************************)

\* The locals after a press of key k.
Press(k, s) == HandleEvent(KeyDown(k), s)

\* The drain handles the key k in this step.
Drains(k) ==
    /\ pc = "poll"
    /\ queue # << >>
    /\ Head(queue) = KeyDown(k)
    /\ queue' = Tail(queue)

\* C27: in exact arithmetic, after any key step the drain takes, the opposite
\* key would give back the values from before it: DOWN after UP and UP after
\* DOWN, v after c and c after v, LEFT after RIGHT, z after x.  RIGHT after
\* LEFT gives warp back exactly when warp - 0.1 >= 0.1 (from the floor 0.1 it
\* gives 0.2), and x after z gives thickness back exactly when
\* thickness - 0.01 >= 0.01.
C27_StepsUndo ==
    [][/\ Drains("UP") => Press("DOWN", Locals') = Locals
       /\ Drains("DOWN") => Press("UP", Locals') = Locals
       /\ Drains("c") => Press("v", Locals') = Locals
       /\ Drains("v") => Press("c", Locals') = Locals
       /\ Drains("RIGHT") => Press("LEFT", Locals') = Locals
       /\ Drains("x") => Press("z", Locals') = Locals
       /\ Drains("LEFT") =>
             /\ Press("RIGHT", Locals') = Locals <=> RLeq(WarpFloor, RSub(warp, WarpStep))
             /\ warp = WarpFloor => Press("RIGHT", Locals').warp = Rat(2, 10)
       /\ Drains("z") =>
             Press("x", Locals') = Locals <=>
                 RLeq(ThicknessFloor, RSub(thickness, ThicknessStep))]_vars

\* LEFT was pressed at the floor and RIGHT after it: warp is 0.2.
C27_Witness ==
    /\ env = [WarpKeys EXCEPT !.left[KeyDown("LEFT")] = 0, !.left[KeyDown("RIGHT")] = 0,
                              !.total = 1]
    /\ queue = << >>
    /\ warp = Rat(2, 10)

\* The parameter a key is mapped to (226-233), "none" for any other key.
Mapped(k) ==
    CASE k \in {"UP", "DOWN"}    -> "speed"
      [] k \in {"LEFT", "RIGHT"} -> "warp"
      [] k \in {"z", "x"}        -> "thickness"
      [] k \in {"c", "v"}        -> "colorShift"
      [] OTHER                   -> "none"

\* The drain handles the event e in this step.
Taken(e) ==
    /\ pc = "poll"
    /\ queue # << >>
    /\ Head(queue) = e
    /\ queue' = Tail(queue)

\* C28: a key-down event changes at most the parameter its key is mapped to:
\* the other parameters, the stored size and the viewport stay; a key with no
\* mapping changes nothing at all; a Resize event sets the stored size and the
\* viewport to its dimensions and leaves the four parameters and running alone.
\* No event writes a shader input.
C28_EventChangesItsOwn ==
    [][\A e \in Events : Taken(e) =>
          /\ uni' = uni
          /\ e.type = "KEYDOWN" =>
                /\ << w, h, viewport >>' = << w, h, viewport >>
                /\ \A par \in {"speed", "warp", "thickness", "colorShift"} :
                       par # Mapped(e.sym) => Locals'[par] = Locals[par]
                /\ (Mapped(e.sym) = "none" /\ e.sym # "ESCAPE") => Locals' = Locals
          /\ IsResize(e) =>
                /\ << w, h >>' = << e.data1, e.data2 >>
                /\ viewport' = << e.data1, e.data2 >>
                /\ Parameters' = Parameters
                /\ running' = running
          /\ e = Exposed => Locals' = Locals]_vars

\* The x key and a resize to 800x600 were handled: thickness is one step up,
\* the size is 800x600 and the other three parameters are the defaults.
C28_Witness ==
    /\ pc = "draw"
    /\ env.left[KeyDown("x")] = MaxEvents - 1
    /\ env.left[SizeChanged(<< 800, 600 >>)] = MaxEvents - 1
    /\ thickness = ThicknessUp(DefaultThickness)
    /\ << speed, warp, colorShift >> = << DefaultSpeed, DefaultWarp, DefaultColorShift >>
    /\ << w, h >> = << 800, 600 >>
    /\ viewport = << 800, 600 >>

(***************************************************************************)
(* Releases                                                                *)
(***************************************************************************)

\* The positions of the loop body at which the program is written to or dispatched.
Uses == Slots \cup {"draw"}

\* Something the start-up created is released in this step.
Releases ==
    \/ vbo # 0 /\ vbo' = 0
    \/ vao # 0 /\ vao' = 0
    \/ prog \in programs /\ prog \notin programs'
    \/ ctx # 0 /\ ctx' = 0
    \/ win # 0 /\ win' = 0

\* C29: the step after the link attempt deletes both shader units, whether
\* the link gave a program or not.  The vertex buffer, the vertex array, the
\* program, the context and the window are released only by the step after the
\* loop, when running is false: all through the loop they are live, and every
\* input write and every dispatch is made to a linked program that has not
\* been deleted.  After a normal termination all five are released.
C29_ReleasesInOrder ==
    /\ [][pc = "link" => pc' = "delete_shaders"]_vars
    /\ [][pc = "delete_shaders" =>
              /\ vs \notin shaders' /\ fs \notin shaders'
              /\ pc' = "check_prog"]_vars
    /\ [](pc = "check_prog" => shaders = {})
    /\ [][Releases => pc = "cleanup" /\ ~running]_vars
    /\ [](pc \in LoopPcs \cup {"draw", "swap", "delay"} =>
              /\ prog # 0 /\ prog \in programs
              /\ vao # 0 /\ vbo # 0 /\ ctx # 0 /\ win # 0)
    /\ [](pc \in Uses => current = prog /\ Linked(prog) /\ prog \in programs)
    /\ [](pc = "done" /\ exitCode = 0 =>
              /\ prog \notin programs
              /\ vao = 0 /\ vbo = 0 /\ ctx = 0 /\ win = 0)

\* The run dispatched a frame and ended normally; everything is released.
C29_Witness ==
    /\ pc = "done"
    /\ exitCode = 0
    /\ "draw" \in ever
    /\ shaders = {}
    /\ prog \notin programs
    /\ << vbo, vao, ctx, win >> = << 0, 0, 0, 0 >>

====
